---------------------------- MODULE Spec2Model ----------------------------
(***************************************************************************)
(* Model of litedram's Series-7 DDR2/DDR3 PHY (litedram/phy/s7ddrphy.py):  *)
(* the construction-time latency planning (get_cl_cw, get_sys_latency,     *)
(* get_sys_phases, PhySettings) and the per-system-clock behaviour of the  *)
(* registers S7DDRPHY.__init__ elaborates: the read-enable delay line, the *)
(* write-enable shift register with output enable and strobe preamble /    *)
(* postamble, the per-pin bitslip and input-delay calibration state, the   *)
(* deserialised data window feeding the bitslip, the output delay taps,    *)
(* the serialisers' inputs and the mapping of the aligner output onto the  *)
(* read words.                                                             *)
(*                                                                         *)
(* One step of the model is one rising edge of the system clock.  State    *)
(* variables hold the register values during a cycle; combinational        *)
(* signals are operators over them.  Frequencies are in MHz and a clock    *)
(* period is the exact fraction <<num, den>> microseconds.                 *)
(***************************************************************************)
EXTENDS Integers, Sequences, FiniteSets, TLC

VARIABLES
    \* constructor arguments and construction result
    memtype, nphases, sys_clk_freq, with_odelay, databits, phy, settings,
    iodelay_clk_freq,
    \* CSR storage
    dly_sel, wlevel_en, half_sys8x_taps_storage,
    \* output delay taps: per data pin, per mask pin, per strobe pin
    odelay_dq, odelay_dm, odelay_dqs,
    \* per data pin calibration and read data path
    dq_bitslip_value, dq_bitslip_r, dq_bitslip_o, dq_i_data, idelay_tap,
    \* serialiser outputs of the last system cycle, first transition first: per
    \* data pin, per mask pin and of one address/bank/control pin
    dq_o_nodelay, dm_o_nodelay, pads_a,
    \* flow control registers
    rddata_en_pipe, rddata_valid, last_wrdata_en, oe_dqs, oe_dq,
    \* observation of the run: cycle count, per-cycle record of the signals at
    \* the DFI and serdes boundary, inputs and combinational signals of the
    \* last cycle (the strobe pattern as reset before the first), deserialised groups
    \* and bitslip increments applied to pin 0 since its last reset (modulo 8)
    cycle, log, last, demux_hist, slip_count,
    \* the write frames of the last cycles (newest first), and for a pin looped
    \* back to its aligner: the serialised bits of the cycle before the last and
    \* the displacement of the stream in bits
    frame_hist, wire, skew,
    \* the latest call of a module-level function: its name, arguments and result
    call

vars == <<memtype, nphases, sys_clk_freq, with_odelay, databits, phy, settings,
          iodelay_clk_freq, dly_sel, wlevel_en, half_sys8x_taps_storage,
          odelay_dq, odelay_dm, odelay_dqs,
          dq_bitslip_value, dq_bitslip_r, dq_bitslip_o, dq_i_data, idelay_tap,
          dq_o_nodelay, dm_o_nodelay, pads_a,
          rddata_en_pipe, rddata_valid, last_wrdata_en, oe_dqs, oe_dq,
          cycle, log, last, demux_hist, slip_count, frame_hist, wire, skew, call>>

\* everything but the record of the latest function call
phy_vars == <<memtype, nphases, sys_clk_freq, with_odelay, databits, phy, settings,
              iodelay_clk_freq, dly_sel, wlevel_en, half_sys8x_taps_storage,
              odelay_dq, odelay_dm, odelay_dqs,
              dq_bitslip_value, dq_bitslip_r, dq_bitslip_o, dq_i_data, idelay_tap,
              dq_o_nodelay, dm_o_nodelay, pads_a,
              rddata_en_pipe, rddata_valid, last_wrdata_en, oe_dqs, oe_dq,
              cycle, log, last, demux_hist, slip_count, frame_hist, wire, skew>>

-----------------------------------------------------------------------------
(* Bounds of the model. *)

\* system cycles observed in a logged run of read traffic
MaxCycle == 12
\* system cycles observed in a logged run of write traffic
MaxWrCycle == 9
\* system cycles observed in a logged run of read traffic with write leveling
MaxLvCycle == 9
\* system cycles observed in a logged run of calibration among traffic
MaxCalCycle == 3
\* write frames remembered
HistDepth == 5
\* read-enables on the read phase in a logged run
MaxReads == 2
\* write-enables on the write phase in a logged run
MaxWrites == 3
\* cycles with write leveling enabled in a logged run
MaxLevel == 2
\* the calibration software stops incrementing a delay tap here
MaxTap == 1

-----------------------------------------------------------------------------
(* Generic helpers. *)

\* bit k (0-based, as in the source) of a signal held as a sequence
Bit(sig, k) == sig[k + 1]

\* migen Signal.__getitem__ with an integer key: a negative key counts from the
\* most significant end (key += len)
Index(sig, key) == IF key < 0 THEN sig[key + Len(sig) + 1] ELSE sig[key + 1]

\* a signal of n bits all equal to v
Fill(n, v) == [k \in 1..n |-> v]

\* the dfi interface always has 4 phases (Interface(..., 4))
DfiPhases == 0..3

-----------------------------------------------------------------------------
(* Timing resolver and latency planner. *)

ValueError == "ValueError"
AssertionError == "AssertionError"

\* (variant: cl and cwl of the DDR3 1333 entry are swapped)
f_to_cl_cwl_swapped(mt) ==
    IF mt = "DDR2" THEN
        << <<400, 3, 2>>, <<533, 4, 3>>, <<677, 5, 4>>, <<800, 6, 5>>, <<1066, 7, 5>> >>
    ELSE IF mt = "DDR3" THEN
        << <<800, 6, 5>>, <<1066, 7, 6>>, <<1333, 7, 10>>, <<1600, 11, 8>> >>
    ELSE ValueError

\* (variant: an unknown family falls back to the DDR3 table)
f_to_cl_cwl_fallback(mt) ==
    IF mt = "DDR2" THEN
        << <<400, 3, 2>>, <<533, 4, 3>>, <<677, 5, 4>>, <<800, 6, 5>>, <<1066, 7, 5>> >>
    ELSE
        << <<800, 6, 5>>, <<1066, 7, 6>>, <<1333, 10, 7>>, <<1600, 11, 8>> >>

\* f_to_cl_cwl: <<frequency in MHz, cl, cwl>> in insertion order
f_to_cl_cwl(mt) ==
    IF mt = "DDR2" THEN
        << <<400, 3, 2>>, <<533, 4, 3>>, <<677, 5, 4>>, <<800, 6, 5>>, <<1066, 7, 5>> >>
    ELSE IF mt = "DDR3" THEN
        << <<800, 6, 5>>, <<1066, 7, 6>>, <<1333, 10, 7>>, <<1600, 11, 8>> >>
    ELSE ValueError

\* tck >= 2/f with tck = num/den microseconds and f in MHz
PeriodCovers(tck, f) == tck[1] * f >= 2 * tck[2]

\* (variant: the scan keeps the last entry that matches)
ScanTable_last(tab, tck, i) ==
    LET S == {k \in i..Len(tab) : PeriodCovers(tck, tab[k][1])}
    IN  IF S = {} THEN ValueError
        ELSE LET k == CHOOSE x \in S : \A y \in S : y <= x
             IN  <<tab[k][2], tab[k][3]>>

\* the for loop of get_cl_cw from entry i on
RECURSIVE ScanTable(_, _, _)
ScanTable(tab, tck, i) ==
    IF i > Len(tab) THEN ValueError
    ELSE IF PeriodCovers(tck, tab[i][1]) THEN <<tab[i][2], tab[i][3]>>
    ELSE ScanTable(tab, tck, i + 1)

get_cl_cw(mt, tck) ==
    IF f_to_cl_cwl(mt) = ValueError THEN ValueError
    ELSE ScanTable(f_to_cl_cwl(mt), tck, 1)

\* (variant: the quotient rounded down)
get_sys_latency_floor(n, cas_latency) == cas_latency \div n

\* math.ceil(cas_latency/nphases)
get_sys_latency(n, cas_latency) == (cas_latency + n - 1) \div n

\* (variant: the command phase is not reduced modulo nphases)
get_sys_phases_nowrap(n, sys_latency, cas_latency) ==
    LET dat_phase == sys_latency * n - cas_latency
        cmd_phase == dat_phase - 1
    IN  <<cmd_phase, dat_phase>>

\* (variant: the command is put on the data phase)
get_sys_phases_same(n, sys_latency, cas_latency) ==
    LET dat_phase == sys_latency * n - cas_latency
        cmd_phase == dat_phase % n
    IN  <<cmd_phase, dat_phase>>

\* <<cmd_phase, dat_phase>>
get_sys_phases(n, sys_latency, cas_latency) ==
    LET dat_phase == sys_latency * n - cas_latency
        cmd_phase == (dat_phase - 1) % n
    IN  <<cmd_phase, dat_phase>>

\* tck = 2/(2*nphases*sys_clk_freq)
Tck(n, f) == <<2, 2 * n * f>>

\* (variant: the fixed serialiser, deserialiser and bitslip stages left out)
ReadLatency_bare(cl_sys_latency) == cl_sys_latency

\* read_latency = 2 + cl_sys_latency + 2 + 3 - 1
ReadLatency(cl_sys_latency) == 2 + cl_sys_latency + 2 + 3 - 1

\* write_latency = cwl_sys_latency
WriteLatency(cwl_sys_latency) == cwl_sys_latency

\* the PhySettings the constructor computes from cl, cwl
PhySettings(mt, n, db, clcwl) ==
    LET cl == clcwl[1]
        cwl == clcwl[2]
        cl_sys_latency == get_sys_latency(n, cl)
        cwl_sys_latency == get_sys_latency(n, cwl)
        rd == get_sys_phases(n, cl_sys_latency, cl)
        wr == get_sys_phases(n, cwl_sys_latency, cwl)
    IN  [memtype |-> mt, dfi_databits |-> 2 * db, nphases |-> n,
         rdphase |-> rd[2], wrphase |-> wr[2],
         rdcmdphase |-> rd[1], wrcmdphase |-> wr[1],
         cl |-> cl, cwl |-> cwl,
         read_latency |-> ReadLatency(cl_sys_latency),
         write_latency |-> WriteLatency(cwl_sys_latency)]

\* iodelay_tap_average in picoseconds, by iodelay_clk_freq in MHz
iodelay_tap_average(io) == IF io = 200 THEN 78 ELSE IF io = 300 THEN 52 ELSE 39

\* (variant: a quarter of the period instead of a quarter of half of it)
half_sys8x_taps_quarter(n, f, io) ==
    (Tck(n, f)[1] * 1000000) \div (Tck(n, f)[2] * 2 * iodelay_tap_average(io))

\* half_sys8x_taps = math.floor(tck/(4*iodelay_tap_average[iodelay_clk_freq]))
half_sys8x_taps(n, f, io) ==
    (Tck(n, f)[1] * 1000000) \div (Tck(n, f)[2] * 4 * iodelay_tap_average(io))

\* a value held in a w-bit register
Truncate(v, w) == v % (2 ^ w)

\* outcome of the constructor's checks: the assert on DDR3 with 2 phases comes
\* first, then get_cl_cw may raise
\* (variant: the phase count is not checked)
ConstructResult_unchecked(mt, n, f) ==
    IF get_cl_cw(mt, Tck(n, f)) = ValueError THEN ValueError
    ELSE "ok"

ConstructResult(mt, n, f) ==
    IF mt = "DDR3" /\ n = 2 THEN AssertionError
    ELSE IF get_cl_cw(mt, Tck(n, f)) = ValueError THEN ValueError
    ELSE "ok"

\* locals of the constructor, read back from the constructed instance
cl_sys_latency == get_sys_latency(nphases, settings.cl)
cwl_sys_latency == get_sys_latency(nphases, settings.cwl)

\* dqs preamble/postamble tap of the write-enable shift register
dqs_sys_latency ==
    IF memtype = "DDR2" THEN cwl_sys_latency - 1
    ELSE IF with_odelay THEN cwl_sys_latency - 1 ELSE cwl_sys_latency

\* number of byte lanes: databits//8
Lanes == 0..((databits \div 8) - 1)
Pins == 0..(databits - 1)
LaneOf(i) == i \div 8

-----------------------------------------------------------------------------
(* State after construction. *)

Zero4 == <<0, 0, 0, 0>>

\* newest first: the 4-bit groups the deserialiser delivered on the last
\* DemuxDepth clk200 edges
DemuxDepth == 7

\* no module-level function has been called from outside the constructor
NoCall == [fn |-> "none"]

Construct(mt, n, f, od, db, io, sk) ==
    /\ memtype = mt
    /\ nphases = n
    /\ sys_clk_freq = f
    /\ with_odelay = od
    /\ databits = db
    /\ iodelay_clk_freq = io
    /\ half_sys8x_taps_storage = Truncate(half_sys8x_taps(n, f, io), 4)
    /\ odelay_dq = [i \in (IF od THEN 0..(db - 1) ELSE {}) |-> 0]
    /\ odelay_dm = [l \in (IF od THEN 0..((db \div 8) - 1) ELSE {}) |-> 0]
    /\ odelay_dqs = [l \in (IF od THEN 0..((db \div 8) - 1) ELSE {}) |->
                        half_sys8x_taps(n, f, io)]
    /\ phy = ConstructResult(mt, n, f)
    /\ settings = IF ConstructResult(mt, n, f) = "ok"
                  THEN PhySettings(mt, n, db, get_cl_cw(mt, Tck(n, f)))
                  ELSE [memtype |-> mt]
    /\ dly_sel = [l \in 0..((db \div 8) - 1) |-> FALSE]
    /\ wlevel_en = FALSE
    /\ dq_bitslip_value = [i \in 0..(db - 1) |-> 0]
    /\ dq_bitslip_r = [i \in 0..(db - 1) |-> Fill(16, 0)]
    /\ dq_bitslip_o = [i \in 0..(db - 1) |-> Fill(8, 0)]
    /\ dq_i_data = [i \in 0..(db - 1) |-> Fill(8, 0)]
    /\ idelay_tap = [i \in 0..(db - 1) |-> 0]
    /\ rddata_en_pipe =
         IF ConstructResult(mt, n, f) = "ok"
         THEN Fill(PhySettings(mt, n, db, get_cl_cw(mt, Tck(n, f))).read_latency - 1, FALSE)
         ELSE <<>>
    /\ rddata_valid = [p \in DfiPhases |-> FALSE]
    /\ last_wrdata_en =
         IF ConstructResult(mt, n, f) = "ok"
         THEN Fill(get_sys_latency(n, get_cl_cw(mt, Tck(n, f))[2]) + 2, FALSE)
         ELSE <<>>
    /\ oe_dqs = FALSE
    /\ oe_dq = FALSE
    /\ cycle = 0
    /\ log = <<>>
    /\ last = [pulses |-> {}, lv |-> FALSE, bitslip |-> [i \in 0..(db - 1) |-> 0],
               oe |-> FALSE, pre |-> FALSE, post |-> FALSE, pat |-> 85,
               sel |-> [l \in 0..((db \div 8) - 1) |-> FALSE],
               taps |-> [idelay |-> [i \in 0..(db - 1) |-> 0],
                         dq |-> [i \in (IF od THEN 0..(db - 1) ELSE {}) |-> 0],
                         dm |-> [l \in (IF od THEN 0..((db \div 8) - 1) ELSE {}) |-> 0],
                         dqs |-> [l \in (IF od THEN 0..((db \div 8) - 1) ELSE {}) |->
                                    half_sys8x_taps(n, f, io)]],
               rd |-> [p \in DfiPhases |-> FALSE], wr |-> [p \in DfiPhases |-> FALSE]]
    /\ demux_hist = Fill(DemuxDepth, Zero4)
    /\ slip_count = 0
    /\ dq_o_nodelay = [i \in 0..(db - 1) |-> Fill(2 * n, 0)]
    /\ dm_o_nodelay = [l \in 0..((db \div 8) - 1) |-> Fill(2 * n, 0)]
    /\ pads_a = Fill(2 * n, 0)
    /\ frame_hist = Fill(HistDepth, 0)
    /\ wire = [i \in 0..(db - 1) |-> Fill(2 * n, 0)]
    /\ skew = sk
    /\ call = NoCall

\* whether E loops every data pin's serialised stream back to its aligner
Loopback(E) == "skews" \in DOMAIN E

\* the write frames E presents on the dfi (by number, see Frame); none but the
\* all-zero frame unless E says otherwise
FramesOf(E) == IF "frames" \in DOMAIN E THEN E.frames ELSE {0}

\* whether runs of environment E also record, in `last`, the lane selection,
\* the delay taps and the DFI enables of the last cycle
Traced(E) == IF "traced" \in DOMAIN E THEN E.traced ELSE FALSE

\* the configurations an environment E constructs; iodelay_clk_freq has the
\* default 200e6 unless E says otherwise
InitOf(E) ==
    \E mt \in E.memtypes, n \in E.nphases, f \in E.clks,
       od \in E.odelays, db \in E.databits,
       io \in (IF "iodelays" \in DOMAIN E THEN E.iodelays ELSE {200}),
       sk \in (IF "skews" \in DOMAIN E THEN E.skews ELSE {0}) :
        Construct(mt, n, f, od, db, io, sk)

-----------------------------------------------------------------------------
(* Combinational signals of a cycle. *)

\* (variant: the window misses its last bit)
oe_narrow ==
    \/ Index(last_wrdata_en, cwl_sys_latency - 1)
    \/ Index(last_wrdata_en, cwl_sys_latency)

\* oe: bits cwl_sys_latency-1 .. cwl_sys_latency+1 of last_wrdata_en
oe ==
    \/ Index(last_wrdata_en, cwl_sys_latency - 1)
    \/ Index(last_wrdata_en, cwl_sys_latency)
    \/ Index(last_wrdata_en, cwl_sys_latency + 1)

dqs_preamble ==
    /\ Index(last_wrdata_en, dqs_sys_latency - 1)
    /\ ~Index(last_wrdata_en, dqs_sys_latency)

dqs_postamble ==
    /\ Index(last_wrdata_en, dqs_sys_latency + 1)
    /\ ~Index(last_wrdata_en, dqs_sys_latency)

\* (variant: preamble and postamble are tested before leveling)
dqs_serdes_pattern_prio(strobe) ==
    IF dqs_preamble \/ dqs_postamble THEN 0
    ELSE IF with_odelay /\ wlevel_en THEN (IF strobe THEN 1 ELSE 0)
    ELSE 85

\* dqs_serdes_pattern as an integer; strobe is _wlevel_strobe.re of the cycle
dqs_serdes_pattern(strobe) ==
    IF with_odelay /\ wlevel_en THEN (IF strobe THEN 1 ELSE 0)
    ELSE IF dqs_preamble \/ dqs_postamble THEN 0
    ELSE 85

-----------------------------------------------------------------------------
(* Next values of the registers. *)

\* (variant: an enable entering the chain merges into the one ahead of it)
NextRddataEnPipe_merge(en) ==
    <<en, rddata_en_pipe[1] \/ en>> \o SubSeq(rddata_en_pipe, 2, Len(rddata_en_pipe) - 1)

\* the chain of read_latency-1 registers n_rddata_en
NextRddataEnPipe(en) == <<en>> \o SubSeq(rddata_en_pipe, 1, Len(rddata_en_pipe) - 1)

\* (variant: leveling does not reach the valid)
NextRddataValid_plain ==
    [p \in DfiPhases |-> rddata_en_pipe[Len(rddata_en_pipe)]]

\* (variant: the valid taken one register early)
NextRddataValid_early ==
    [p \in DfiPhases |->
        rddata_en_pipe[Len(rddata_en_pipe) - 1] \/ (with_odelay /\ wlevel_en)]

\* (variant: only the phases in use are driven)
NextRddataValid_used ==
    [p \in DfiPhases |->
        p < nphases /\ (rddata_en_pipe[Len(rddata_en_pipe)] \/ (with_odelay /\ wlevel_en))]

\* phase.rddata_valid.eq(rddata_en | wlevel_en) for phase in dfi.phases
NextRddataValid ==
    [p \in DfiPhases |->
        rddata_en_pipe[Len(rddata_en_pipe)] \/ (with_odelay /\ wlevel_en)]

\* last_wrdata_en.eq(Cat(wrphase.wrdata_en, last_wrdata_en[:-1]))
NextLastWrdataEn(en) == <<en>> \o SubSeq(last_wrdata_en, 1, Len(last_wrdata_en) - 1)

\* (variant: the strobe enable follows the data enable register)
NextOeDqs_late == IF with_odelay /\ wlevel_en THEN TRUE ELSE oe_dq

NextOeDqs == IF with_odelay /\ wlevel_en THEN TRUE ELSE oe

\* (variant: the data enable ignores leveling)
NextOeDq_ungated == oe

NextOeDq == IF with_odelay /\ wlevel_en THEN FALSE ELSE oe

\* (variant: a 4-bit rotation register)
NextBitslipValue_wide(i, pulses) ==
    IF dly_sel[LaneOf(i)] THEN
        IF "rdly_dq_bitslip_rst" \in pulses THEN 0
        ELSE IF "rdly_dq_bitslip" \in pulses THEN (dq_bitslip_value[i] + 1) % 16
        ELSE dq_bitslip_value[i]
    ELSE dq_bitslip_value[i]

\* (variant: the increment is tested before the reset)
NextBitslipValue_incfirst(i, pulses) ==
    IF dly_sel[LaneOf(i)] THEN
        IF "rdly_dq_bitslip" \in pulses THEN (dq_bitslip_value[i] + 1) % 8
        ELSE IF "rdly_dq_bitslip_rst" \in pulses THEN 0
        ELSE dq_bitslip_value[i]
    ELSE dq_bitslip_value[i]

\* (variant: the lane is selected by the pin's position within its lane)
NextBitslipValue_bypin(i, pulses) ==
    IF dly_sel[i % (databits \div 8)] THEN
        IF "rdly_dq_bitslip_rst" \in pulses THEN 0
        ELSE IF "rdly_dq_bitslip" \in pulses THEN (dq_bitslip_value[i] + 1) % 8
        ELSE dq_bitslip_value[i]
    ELSE dq_bitslip_value[i]

\* dq_bitslip.value of pin i: a 3-bit register (Signal(max=8))
NextBitslipValue(i, pulses) ==
    IF dly_sel[LaneOf(i)] THEN
        IF "rdly_dq_bitslip_rst" \in pulses THEN 0
        ELSE IF "rdly_dq_bitslip" \in pulses THEN (dq_bitslip_value[i] + 1) % 8
        ELSE dq_bitslip_value[i]
    ELSE dq_bitslip_value[i]

\* (variant: the load is not gated by the lane select)
NextIdelayTap_ungated(i, pulses) ==
    IF "rdly_dq_rst" \in pulses THEN 0
    ELSE IF dly_sel[LaneOf(i)] /\ "rdly_dq_inc" \in pulses THEN idelay_tap[i] + 1
    ELSE idelay_tap[i]

\* IDELAYE2 of pin i: LD loads IDELAY_VALUE=0, CE with INC=1 adds one tap
NextIdelayTap(i, pulses) ==
    IF dly_sel[LaneOf(i)] /\ "rdly_dq_rst" \in pulses THEN 0
    ELSE IF dly_sel[LaneOf(i)] /\ "rdly_dq_inc" \in pulses THEN idelay_tap[i] + 1
    ELSE idelay_tap[i]

\* (variant: the strobe delay shares the data delay's pulses)
NextOdelayDqs_shared(l, pulses) ==
    IF dly_sel[l] /\ "wdly_dq_rst" \in pulses
    THEN half_sys8x_taps(nphases, sys_clk_freq, iodelay_clk_freq)
    ELSE IF dly_sel[l] /\ "wdly_dq_inc" \in pulses THEN odelay_dqs[l] + 1
    ELSE odelay_dqs[l]

\* (variant: enabling write leveling reloads the strobe delay)
NextOdelayDqs_levelload(l, pulses) ==
    IF wlevel_en \/ (dly_sel[l] /\ "wdly_dqs_rst" \in pulses)
    THEN half_sys8x_taps(nphases, sys_clk_freq, iodelay_clk_freq)
    ELSE IF dly_sel[l] /\ "wdly_dqs_inc" \in pulses THEN odelay_dqs[l] + 1
    ELSE odelay_dqs[l]

\* ODELAYE2 of the strobe of lane l: LD loads ODELAY_VALUE=half_sys8x_taps, CE
\* with INC=1 adds one tap; driven by _wdly_dqs_rst / _wdly_dqs_inc
NextOdelayDqs(l, pulses) ==
    IF dly_sel[l] /\ "wdly_dqs_rst" \in pulses
    THEN half_sys8x_taps(nphases, sys_clk_freq, iodelay_clk_freq)
    ELSE IF dly_sel[l] /\ "wdly_dqs_inc" \in pulses THEN odelay_dqs[l] + 1
    ELSE odelay_dqs[l]

\* (variant: the mask delay ignores the lane selection)
NextOdelayDm_unselected(l, pulses) ==
    IF "wdly_dq_rst" \in pulses THEN 0
    ELSE IF "wdly_dq_inc" \in pulses THEN odelay_dm[l] + 1
    ELSE odelay_dm[l]

\* ODELAYE2 of the mask pin of lane l: LD loads ODELAY_VALUE=0; driven by
\* _wdly_dq_rst / _wdly_dq_inc under _dly_sel.storage[l]
NextOdelayDm(l, pulses) ==
    IF dly_sel[l] /\ "wdly_dq_rst" \in pulses THEN 0
    ELSE IF dly_sel[l] /\ "wdly_dq_inc" \in pulses THEN odelay_dm[l] + 1
    ELSE odelay_dm[l]

\* ODELAYE2 of data pin i: LD loads ODELAY_VALUE=0; driven by _wdly_dq_rst /
\* _wdly_dq_inc under _dly_sel.storage[i//8]
NextOdelayDq(i, pulses) ==
    IF dly_sel[LaneOf(i)] /\ "wdly_dq_rst" \in pulses THEN 0
    ELSE IF dly_sel[LaneOf(i)] /\ "wdly_dq_inc" \in pulses THEN odelay_dq[i] + 1
    ELSE odelay_dq[i]

\* what upstream logic presents on the dfi in one cycle, frame number id: bit
\* k of phase p's wrdata, bit l of its wrdata_mask and one address bit
FrameBit(id, p, k) ==
    IF id = 0 THEN 0
    ELSE IF id = 1 THEN (IF (k + p) % 3 = 0 THEN 1 ELSE 0)
    ELSE (IF (k * (p + 1)) % 5 < 2 THEN 1 ELSE 0)

Frames ==
    [id \in 0..2 |->
        [wrdata |-> [p \in DfiPhases |-> [k \in 0..31 |-> FrameBit(id, p, k)]],
         wrdata_mask |-> [p \in DfiPhases |-> [l \in 0..3 |-> FrameBit(id, p, l + 1)]],
         address |-> [p \in DfiPhases |-> FrameBit(id, p, 3)]]]

Frame(id) == Frames[id]

\* (variant: the two halves of a phase word swapped)
DqSerdesD_swapped(i, fr) ==
    <<fr.wrdata[0][databits + i], fr.wrdata[0][i],
      fr.wrdata[1][databits + i], fr.wrdata[1][i],
      fr.wrdata[2][databits + i], fr.wrdata[2][i],
      fr.wrdata[3][databits + i], fr.wrdata[3][i]>>

\* D1..D8 of the OSERDESE2 of data pin i
DqSerdesD(i, fr) ==
    <<fr.wrdata[0][i], fr.wrdata[0][databits + i],
      fr.wrdata[1][i], fr.wrdata[1][databits + i],
      fr.wrdata[2][i], fr.wrdata[2][databits + i],
      fr.wrdata[3][i], fr.wrdata[3][databits + i]>>

\* D1..D8 of the OSERDESE2 of the mask pin of lane l
DmSerdesD(l, fr) ==
    <<fr.wrdata_mask[0][l], fr.wrdata_mask[0][(databits \div 8) + l],
      fr.wrdata_mask[1][l], fr.wrdata_mask[1][(databits \div 8) + l],
      fr.wrdata_mask[2][l], fr.wrdata_mask[2][(databits \div 8) + l],
      fr.wrdata_mask[3][l], fr.wrdata_mask[3][(databits \div 8) + l]>>

\* D1..D8 of the OSERDESE2 of an address (bank, control) pin
AddrSerdesD(fr) ==
    <<fr.address[0], fr.address[0], fr.address[1], fr.address[1],
      fr.address[2], fr.address[2], fr.address[3], fr.address[3]>>

\* (variant: the last input leaves first)
Serialize_reversed(D) == [k \in 1..(2 * nphases) |-> D[2 * nphases + 1 - k]]

\* OSERDESE2 with DATA_WIDTH=2*nphases in DDR mode: the inputs D1..D(2*nphases)
\* loaded on a CLKDIV edge leave on OQ one per transition, D1 first
Serialize(D) == SubSeq(D, 1, 2 * nphases)

\* (variant: the 4-phase mapping shifted into the upper half for 2 phases)
RdSource_upper(p, h) == IF nphases = 2 THEN 4 + 2 * p + h ELSE 2 * p + h

\* the bit of dq_bitslip.o that drives phases[p].rddata[h*databits + i]
RdSource(p, h) ==
    IF nphases = 2
    THEN (IF p = 0 THEN (IF h = 0 THEN 7 ELSE 5) ELSE (IF h = 0 THEN 6 ELSE 7))
    ELSE 2 * p + h

\* phases[p].rddata[h*databits + i] (the phases beyond nphases are not driven)
rddata(p, i, h) == IF p < nphases THEN Bit(dq_bitslip_o[i], RdSource(p, h)) ELSE 0

\* the 8 bits the deserialiser of pin i samples in a cycle when the pin's
\* serialised stream comes back displaced by skew bits: the last skew bits
\* of the cycle before, then the first bits of the last cycle
LoopBits(i) == SubSeq(wire[i] \o dq_o_nodelay[i], 9 - skew, 16 - skew)

\* one clk200 edge on dq_i_data: the upper group moves down, the new group
\* enters above it
Clk200Edge(d, demux) == SubSeq(d, 5, 8) \o demux

\* dq_bitslip = BitSlip(8) is migen.genlib.misc.BitSlip: a 16-bit register r
\* shifting in the 8-bit input i on every system clock edge, and a registered
\* output o selecting the 8 bits of r from bit value on.
\* BitSlip(8).r: r.eq(Cat(r[dw:], i))
NextBitslipR(r, i) == SubSeq(r, 9, 16) \o i

\* (variant: the newer window rotated by value)
NextBitslipO_rotate(r, value) == [k \in 1..8 |-> r[8 + ((value + k - 1) % 8) + 1]]

\* BitSlip(8).o: o.eq(r[value:dw+value]), registered
NextBitslipO(r, value) == SubSeq(r, value + 1, value + 8)

-----------------------------------------------------------------------------
(* One system clock edge. *)

\* the pulse CSRs the instance has (.re of a CSR is high for the cycle in which
\* software writes it)
BitslipPulseNames == {"rdly_dq_bitslip_rst", "rdly_dq_bitslip"}
DelayPulseNames == {"rdly_dq_rst", "rdly_dq_inc"}
OdelayPulseNames == {"wlevel_strobe", "wdly_dq_rst", "wdly_dq_inc",
                     "wdly_dqs_rst", "wdly_dqs_inc"}
CsrPulses ==
    BitslipPulseNames \cup DelayPulseNames
    \cup (IF with_odelay THEN OdelayPulseNames ELSE {})

\* number of logged cycles in which field f was set
Count(f) == Cardinality({c \in 1..Len(log) : log[c][f]})

\* what the run records of the current cycle, given the cycle's inputs
Observe(rd, wr, pulses) ==
    [rd |-> rd[settings.rdphase],
     wr |-> wr[settings.wrphase],
     lv |-> wlevel_en,
     valid |-> rddata_valid,
     oe |-> oe,
     oe_dqs |-> oe_dqs,
     oe_dq |-> oe_dq,
     pre |-> dqs_preamble,
     post |-> dqs_postamble,
     pat |-> dqs_serdes_pattern("wlevel_strobe" \in pulses)]

\* (variant: the enable of any phase is tracked)
rddata_en_any(rd) == \E p \in DfiPhases : rd[p]

\* rddata_en = self.dfi.phases[self.settings.rdphase].rddata_en
rddata_en(rd) == rd[settings.rdphase]

\* (variant: the enable of any phase is tracked)
wrdata_en_any(wr) == \E p \in DfiPhases : wr[p]

\* wrphase = self.dfi.phases[self.settings.wrphase]; wrphase.wrdata_en
wrdata_en(wr) == wr[settings.wrphase]

\* the registers after the edge, for the inputs of the cycle: the DFI enables
\* rd and wr (per phase), the CSR pulses, the values the CSR storages hold
\* next (sel, lv) and the two groups g1, g2 the deserialiser delivers on the
\* two clk200 edges of the cycle (per pin), the second coinciding with the
\* system edge, and the write frame fr on the dfi
Step(rd, wr, pulses, sel, lv, g1, g2, fr) ==
    /\ rddata_en_pipe' = NextRddataEnPipe(rddata_en(rd))
    /\ rddata_valid' = NextRddataValid
    /\ last_wrdata_en' = NextLastWrdataEn(wrdata_en(wr))
    /\ oe_dqs' = NextOeDqs
    /\ oe_dq' = NextOeDq
    /\ dly_sel' = sel
    /\ wlevel_en' = lv
    /\ dq_bitslip_value' = [i \in Pins |-> NextBitslipValue(i, pulses)]
    /\ idelay_tap' = [i \in Pins |-> NextIdelayTap(i, pulses)]
    /\ odelay_dq' = [i \in DOMAIN odelay_dq |-> NextOdelayDq(i, pulses)]
    /\ odelay_dm' = [l \in DOMAIN odelay_dm |-> NextOdelayDm(l, pulses)]
    /\ odelay_dqs' = [l \in DOMAIN odelay_dqs |-> NextOdelayDqs(l, pulses)]
    /\ dq_i_data' = [i \in Pins |-> Clk200Edge(Clk200Edge(dq_i_data[i], g1[i]), g2[i])]
    /\ dq_bitslip_r' =
         [i \in Pins |-> NextBitslipR(dq_bitslip_r[i], Clk200Edge(dq_i_data[i], g1[i]))]
    /\ dq_o_nodelay' = [i \in Pins |-> Serialize(DqSerdesD(i, fr))]
    /\ dm_o_nodelay' = [l \in Lanes |-> Serialize(DmSerdesD(l, fr))]
    /\ pads_a' = Serialize(AddrSerdesD(fr))
    /\ dq_bitslip_o' =
         [i \in Pins |-> NextBitslipO(dq_bitslip_r[i], dq_bitslip_value[i])]

\* E is the environment: which inputs upstream logic and software drive, and
\* whether the run is logged (and then bounded)
SysTick(E) ==
    /\ phy = "ok"
    /\ E.logged => cycle < E.maxCycle
    /\ \E rd \in E.rdEn, wr \in E.wrEn, pulses \in E.pulses,
          sel \in (IF E.selWrites THEN [Lanes -> BOOLEAN] ELSE {dly_sel}),
          lv \in (IF E.lvWrites /\ with_odelay THEN BOOLEAN ELSE {wlevel_en}),
          d1 \in E.demux, d2 \in E.demux, id \in FramesOf(E) :
      LET g1 == [i \in Pins |-> IF Loopback(E) THEN SubSeq(LoopBits(i), 1, 4) ELSE d1]
          g2 == [i \in Pins |-> IF Loopback(E) THEN SubSeq(LoopBits(i), 5, 8) ELSE d2]
          fr == Frame(id)
      IN
        /\ pulses \subseteq CsrPulses
        /\ (E.logged /\ rd[settings.rdphase]) => Count("rd") < MaxReads
        /\ (E.logged /\ wr[settings.wrphase]) => Count("wr") < MaxWrites
        /\ (E.logged /\ lv) =>
              Count("lv") + (IF wlevel_en THEN 1 ELSE 0) < MaxLevel
        /\ "rdly_dq_inc" \in pulses =>
              \A i \in Pins : dly_sel[LaneOf(i)] => idelay_tap[i] < MaxTap
        /\ "wdly_dq_inc" \in pulses =>
              \A i \in DOMAIN odelay_dq : dly_sel[LaneOf(i)] => odelay_dq[i] < MaxTap
        /\ "wdly_dqs_inc" \in pulses =>
              \A l \in DOMAIN odelay_dqs : dly_sel[l] =>
                  odelay_dqs[l] <
                      half_sys8x_taps(nphases, sys_clk_freq, iodelay_clk_freq) + MaxTap
        /\ Step(rd, wr, pulses, sel, lv, g1, g2, fr)
        /\ frame_hist' = IF Traced(E)
                          THEN SubSeq(<<id>> \o frame_hist, 1, HistDepth)
                          ELSE frame_hist
        /\ wire' = dq_o_nodelay
        /\ cycle' = IF E.logged THEN cycle + 1 ELSE cycle
        /\ log' = IF E.logged THEN Append(log, Observe(rd, wr, pulses)) ELSE log
        /\ last' = [pulses |-> pulses, lv |-> wlevel_en, bitslip |-> dq_bitslip_value,
                    oe |-> oe, pre |-> dqs_preamble, post |-> dqs_postamble,
                    pat |-> dqs_serdes_pattern("wlevel_strobe" \in pulses),
                    sel |-> IF Traced(E) THEN dly_sel ELSE last.sel,
                    taps |-> IF Traced(E)
                             THEN [idelay |-> idelay_tap, dq |-> odelay_dq,
                                   dm |-> odelay_dm, dqs |-> odelay_dqs]
                             ELSE last.taps,
                    rd |-> IF Traced(E) THEN rd ELSE last.rd,
                    wr |-> IF Traced(E) THEN wr ELSE last.wr]
        /\ demux_hist' = SubSeq(<<g2[0], g1[0]>> \o demux_hist, 1, DemuxDepth)
        /\ slip_count' =
              IF ~dly_sel[LaneOf(0)] THEN slip_count
              ELSE IF "rdly_dq_bitslip_rst" \in pulses THEN 0
              ELSE IF "rdly_dq_bitslip" \in pulses THEN (slip_count + 1) % 8
              ELSE slip_count
    /\ UNCHANGED <<memtype, nphases, sys_clk_freq, with_odelay, databits, phy, settings,
                   iodelay_clk_freq, half_sys8x_taps_storage, skew, call>>

-----------------------------------------------------------------------------
(* Environments and specifications. *)

\* system clock frequencies (MHz) reaching every speed bin of both families at
\* both phase counts, and one beyond the fastest
SysClkFreqs == {50, 66, 83, 100, 133, 166, 200, 266}

Idle == [p \in DfiPhases |-> FALSE]
Busy == [p \in DfiPhases |-> TRUE]
AnyEnables == [DfiPhases -> BOOLEAN]
\* 4-bit groups dq_demux_data[0..3] the deserialiser may deliver
DemuxGroups == {<<1, 0, 0, 0>>, <<0, 1, 1, 0>>}

\* everything driven at once
EnvAll ==
    [memtypes |-> {"DDR2", "DDR3", "SDR"}, nphases |-> {2, 4}, clks |-> SysClkFreqs,
     odelays |-> BOOLEAN, databits |-> {8, 16},
     rdEn |-> AnyEnables, wrEn |-> AnyEnables,
     pulses |-> SUBSET (BitslipPulseNames \cup DelayPulseNames \cup OdelayPulseNames),
     selWrites |-> TRUE, lvWrites |-> TRUE, demux |-> DemuxGroups, logged |-> FALSE, maxCycle |-> 0]

\* read traffic only
EnvRead ==
    [memtypes |-> {"DDR2", "DDR3"}, nphases |-> {2, 4}, clks |-> SysClkFreqs,
     odelays |-> BOOLEAN, databits |-> {8},
     rdEn |-> AnyEnables, wrEn |-> {Idle}, pulses |-> {{}},
     selWrites |-> FALSE, lvWrites |-> FALSE, demux |-> {Zero4}, logged |-> TRUE, maxCycle |-> MaxCycle]

Init == InitOf(EnvAll)
Next == SysTick(EnvAll)
Spec == Init /\ [][Next]_vars

InitRead == InitOf(EnvRead)
NextRead == SysTick(EnvRead)
SpecRead == InitRead /\ [][NextRead]_vars

\* read traffic and write-leveling control, not logged
EnvReadLevel ==
    [memtypes |-> {"DDR2", "DDR3"}, nphases |-> {2, 4}, clks |-> {100, 200},
     odelays |-> BOOLEAN, databits |-> {8},
     rdEn |-> AnyEnables, wrEn |-> {Idle}, pulses |-> {{}},
     selWrites |-> FALSE, lvWrites |-> TRUE, demux |-> {Zero4}, logged |-> FALSE, maxCycle |-> 0]

\* write traffic only
EnvWrite ==
    [memtypes |-> {"DDR2", "DDR3"}, nphases |-> {2, 4}, clks |-> SysClkFreqs,
     odelays |-> BOOLEAN, databits |-> {8},
     rdEn |-> {Idle}, wrEn |-> AnyEnables, pulses |-> {{}},
     selWrites |-> FALSE, lvWrites |-> FALSE, demux |-> {Zero4}, logged |-> TRUE,
     maxCycle |-> MaxWrCycle]

InitWrite == InitOf(EnvWrite)
NextWrite == SysTick(EnvWrite)
SpecWrite == InitWrite /\ [][NextWrite]_vars

\* pulse combinations of the read calibration CSRs
BitslipPulses == {{}, {"rdly_dq_bitslip_rst"}, {"rdly_dq_bitslip"},
                  {"rdly_dq_bitslip_rst", "rdly_dq_bitslip"}}
DelayPulses == {{"rdly_dq_rst"}, {"rdly_dq_inc"}}

\* bitslip calibration of one byte lane
EnvBitslip ==
    [memtypes |-> {"DDR2", "DDR3"}, nphases |-> {2, 4}, clks |-> {100},
     odelays |-> BOOLEAN, databits |-> {8},
     rdEn |-> {Idle}, wrEn |-> {Idle}, pulses |-> BitslipPulses,
     selWrites |-> TRUE, lvWrites |-> FALSE, demux |-> {Zero4}, logged |-> FALSE,
     maxCycle |-> 0]

\* read calibration (bitslip and input delay) of two byte lanes
EnvCal ==
    [memtypes |-> {"DDR3"}, nphases |-> {4}, clks |-> {100},
     odelays |-> {FALSE}, databits |-> {16},
     rdEn |-> {Idle}, wrEn |-> {Idle}, pulses |-> BitslipPulses \cup DelayPulses,
     selWrites |-> TRUE, lvWrites |-> FALSE, demux |-> {Zero4}, logged |-> FALSE,
     maxCycle |-> 0]

\* a read data stream through the aligner of one byte lane while it is
\* being rotated
EnvAlign ==
    [memtypes |-> {"DDR3"}, nphases |-> {4}, clks |-> {100},
     odelays |-> {FALSE}, databits |-> {8},
     rdEn |-> {Idle}, wrEn |-> {Idle},
     pulses |-> {{}, {"rdly_dq_bitslip_rst"}, {"rdly_dq_bitslip"}},
     selWrites |-> TRUE, lvWrites |-> FALSE, demux |-> DemuxGroups, logged |-> FALSE,
     maxCycle |-> 0]

InitBitslip == InitOf(EnvBitslip)
NextBitslip == SysTick(EnvBitslip)
SpecBitslip == InitBitslip /\ [][NextBitslip]_vars

InitCal == InitOf(EnvCal)
NextCal == SysTick(EnvCal)
SpecCal == InitCal /\ [][NextCal]_vars

InitAlign == InitOf(EnvAlign)
NextAlign == SysTick(EnvAlign)
SpecAlign == InitAlign /\ [][NextAlign]_vars

InitReadLevel == InitOf(EnvReadLevel)
NextReadLevel == SysTick(EnvReadLevel)
SpecReadLevel == InitReadLevel /\ [][NextReadLevel]_vars

\* read traffic while software switches write leveling on and off, logged
EnvLevelRead ==
    [memtypes |-> {"DDR3"}, nphases |-> {4}, clks |-> {100},
     odelays |-> BOOLEAN, databits |-> {8},
     rdEn |-> {Idle, Busy}, wrEn |-> {Idle}, pulses |-> {{}},
     selWrites |-> FALSE, lvWrites |-> TRUE, demux |-> {Zero4}, logged |-> TRUE,
     maxCycle |-> MaxLvCycle]

\* write traffic while software switches write leveling on and off and pulses
\* the leveling strobe
EnvLevelWrite ==
    [memtypes |-> {"DDR2", "DDR3"}, nphases |-> {2, 4}, clks |-> {50, 100, 200},
     odelays |-> BOOLEAN, databits |-> {8},
     rdEn |-> {Idle}, wrEn |-> {Idle, Busy}, pulses |-> {{}, {"wlevel_strobe"}},
     selWrites |-> FALSE, lvWrites |-> TRUE, demux |-> {Zero4}, logged |-> FALSE,
     maxCycle |-> 0]

InitLevelRead == InitOf(EnvLevelRead)
NextLevelRead == SysTick(EnvLevelRead)
SpecLevelRead == InitLevelRead /\ [][NextLevelRead]_vars

InitLevelWrite == InitOf(EnvLevelWrite)
NextLevelWrite == SysTick(EnvLevelWrite)
SpecLevelWrite == InitLevelWrite /\ [][NextLevelWrite]_vars

\* I/O delay reference clocks (MHz) of iodelay_tap_average
IodelayClkFreqs == {200, 300, 400}

\* construction with every combination of arguments, then software moving
\* the strobe output delay
EnvBuild ==
    [memtypes |-> {"DDR2", "DDR3"}, nphases |-> {2, 4}, clks |-> SysClkFreqs,
     odelays |-> BOOLEAN, databits |-> {8}, iodelays |-> IodelayClkFreqs,
     rdEn |-> {Idle}, wrEn |-> {Idle},
     pulses |-> {{}, {"wdly_dqs_inc"}, {"wdly_dqs_rst"}},
     selWrites |-> TRUE, lvWrites |-> FALSE, demux |-> {Zero4}, logged |-> FALSE,
     maxCycle |-> 0]

\* write delay calibration of two byte lanes
WdlyPulses == {{"wdly_dq_rst"}, {"wdly_dq_inc"}, {"wdly_dqs_rst"}, {"wdly_dqs_inc"},
               {"wdly_dq_inc", "wdly_dqs_inc"}, {"wdly_dq_rst", "wdly_dq_inc"},
               {"wdly_dqs_rst", "wdly_dqs_inc"}}

EnvWdly ==
    [memtypes |-> {"DDR3"}, nphases |-> {4}, clks |-> {100},
     odelays |-> {TRUE}, databits |-> {16},
     rdEn |-> {Idle}, wrEn |-> {Idle}, pulses |-> {{}} \cup WdlyPulses,
     selWrites |-> TRUE, lvWrites |-> FALSE, demux |-> {Zero4}, logged |-> FALSE,
     maxCycle |-> 0, traced |-> TRUE]

InitWdly == InitOf(EnvWdly)
NextWdly == SysTick(EnvWdly)
SpecWdly == InitWdly /\ [][NextWdly]_vars

\* every increment pulse at once
AllIncrements == {"rdly_dq_bitslip", "rdly_dq_inc", "wdly_dq_inc", "wdly_dqs_inc"}

\* calibration pulses among read and write traffic, lane selection writes and
\* write leveling, logged
EnvPersist ==
    [memtypes |-> {"DDR3"}, nphases |-> {4}, clks |-> {100},
     odelays |-> {TRUE}, databits |-> {8},
     rdEn |-> {Idle, Busy}, wrEn |-> {Idle, Busy}, pulses |-> {{}, AllIncrements},
     selWrites |-> TRUE, lvWrites |-> TRUE, demux |-> {Zero4}, logged |-> TRUE,
     maxCycle |-> MaxCalCycle, traced |-> TRUE]

InitPersist == InitOf(EnvPersist)
NextPersist == SysTick(EnvPersist)
SpecPersist == InitPersist /\ [][NextPersist]_vars

\* an enable on phase p alone, and on every phase but p
OneHot(p) == [q \in DfiPhases |-> q = p]
AllBut(p) == [q \in DfiPhases |-> q # p]

\* read and write enables on the designated phases (rdphase 2 and wrphase 3
\* for DDR3-800 with 4 phases) and on the other phases
EnvStray ==
    [memtypes |-> {"DDR3"}, nphases |-> {4}, clks |-> {100},
     odelays |-> BOOLEAN, databits |-> {8},
     rdEn |-> {Idle, OneHot(2), AllBut(2)}, wrEn |-> {Idle, OneHot(3), AllBut(3)},
     pulses |-> {{}},
     selWrites |-> FALSE, lvWrites |-> FALSE, demux |-> {Zero4}, logged |-> FALSE,
     maxCycle |-> 0, traced |-> TRUE]

InitStray == InitOf(EnvStray)
NextStray == SysTick(EnvStray)
SpecStray == InitStray /\ [][NextStray]_vars

\* write frames through the serialisers of every kind of PHY
EnvSerialize ==
    [memtypes |-> {"DDR2", "DDR3"}, nphases |-> {2, 4}, clks |-> {100},
     odelays |-> BOOLEAN, databits |-> {8, 16},
     rdEn |-> {Idle}, wrEn |-> {Idle}, pulses |-> {{}},
     selWrites |-> FALSE, lvWrites |-> FALSE, demux |-> {Zero4}, logged |-> FALSE,
     maxCycle |-> 0, traced |-> TRUE, frames |-> {0, 1, 2}]

InitSerialize == InitOf(EnvSerialize)
NextSerialize == SysTick(EnvSerialize)
SpecSerialize == InitSerialize /\ [][NextSerialize]_vars

\* read data through deserialiser and aligner to the dfi, for both phase
\* counts
EnvReadMap ==
    [memtypes |-> {"DDR2"}, nphases |-> {2, 4}, clks |-> {100},
     odelays |-> {FALSE}, databits |-> {8},
     rdEn |-> {Idle}, wrEn |-> {Idle}, pulses |-> {{}},
     selWrites |-> FALSE, lvWrites |-> FALSE, demux |-> DemuxGroups, logged |-> FALSE,
     maxCycle |-> 0]

InitReadMap == InitOf(EnvReadMap)
NextReadMap == SysTick(EnvReadMap)
SpecReadMap == InitReadMap /\ [][NextReadMap]_vars

\* displacements of a looped-back stream, in bits
Skews == 0..7

\* every data pin's serialised stream comes back to its aligner, displaced,
\* while software rotates the lane
EnvLoop ==
    [memtypes |-> {"DDR3"}, nphases |-> {4}, clks |-> {100},
     odelays |-> {FALSE}, databits |-> {8},
     rdEn |-> {Idle}, wrEn |-> {Idle}, pulses |-> {{}, {"rdly_dq_bitslip"}},
     selWrites |-> TRUE, lvWrites |-> FALSE, demux |-> {Zero4}, logged |-> FALSE,
     maxCycle |-> 0, traced |-> TRUE, frames |-> {1, 2}, skews |-> Skews]

InitLoop == InitOf(EnvLoop)
NextLoop == SysTick(EnvLoop)
SpecLoop == InitLoop /\ [][NextLoop]_vars

InitBuild == InitOf(EnvBuild)
NextBuild == SysTick(EnvBuild)
SpecBuild == InitBuild /\ [][NextBuild]_vars

-----------------------------------------------------------------------------
(* Calls of the module-level functions get_cl_cw, get_sys_latency and      *)
(* get_sys_phases with arguments of the caller's choice.  They are pure:   *)
(* a call leaves every PHY instance as it is.                              *)

\* memory families a caller may name, one of them unknown to the tables
MemTypes == {"DDR2", "DDR3", "SDR"}

\* data rates (MT/s) at, just beside and beyond the tables' frequencies
DataRates == {350, 399, 400, 401, 533, 677, 799, 800, 801, 1066, 1333, 1599,
              1600, 1601, 1700}

\* clock periods in half nanoseconds, from 1 ns to 6 ns
PeriodsHalfNs == {2, 3, 4, 5, 6, 8, 10, 12}

\* clock periods passed as tck: 2/rate, half nanoseconds, and the periods the
\* constructor computes
Periods ==
    {<<2, r>> : r \in DataRates}
    \cup {<<h, 2000>> : h \in PeriodsHalfNs}
    \cup {Tck(n, f) : n \in {2, 4}, f \in SysClkFreqs}

\* largest latency passed to the latency planner
MaxLatency == 16

\* the record of a call of get_cl_cw also keeps the call before it when that
\* one was for the same family
Resolve ==
    /\ \E mt \in MemTypes, tck \in Periods :
         call' = [fn |-> "get_cl_cw", memtype |-> mt, tck |-> tck,
                  raised |-> get_cl_cw(mt, tck) = ValueError,
                  result |-> get_cl_cw(mt, tck),
                  before |-> IF call.fn = "get_cl_cw" /\ call.memtype = mt
                             THEN [fn |-> "get_cl_cw", tck |-> call.tck,
                                   raised |-> call.raised, result |-> call.result]
                             ELSE NoCall]
    /\ UNCHANGED phy_vars

PlanLatency ==
    /\ \E n \in {2, 4}, cas_latency \in 1..MaxLatency :
         call' = [fn |-> "get_sys_latency", nphases |-> n,
                  cas_latency |-> cas_latency,
                  result |-> get_sys_latency(n, cas_latency)]
    /\ UNCHANGED phy_vars

\* called as the constructor calls it, with the sys_latency get_sys_latency
\* returned for the same latency
PlanPhases ==
    /\ \E n \in {2, 4}, cas_latency \in 1..MaxLatency :
         call' = [fn |-> "get_sys_phases", nphases |-> n,
                  sys_latency |-> get_sys_latency(n, cas_latency),
                  cas_latency |-> cas_latency,
                  result |-> get_sys_phases(n, get_sys_latency(n, cas_latency),
                                            cas_latency)]
    /\ UNCHANGED phy_vars

\* an instance of the default configuration next to which get_cl_cw is called
EnvResolve ==
    [memtypes |-> {"DDR3"}, nphases |-> {4}, clks |-> {100},
     odelays |-> {FALSE}, databits |-> {8},
     rdEn |-> {Idle}, wrEn |-> {Idle}, pulses |-> {{}},
     selWrites |-> FALSE, lvWrites |-> FALSE, demux |-> {Zero4}, logged |-> FALSE,
     maxCycle |-> 0]

\* every construction attempt, next to which the latency planner is called
EnvPlan ==
    [memtypes |-> MemTypes, nphases |-> {2, 4}, clks |-> SysClkFreqs,
     odelays |-> {FALSE}, databits |-> {8},
     rdEn |-> {Idle}, wrEn |-> {Idle}, pulses |-> {{}},
     selWrites |-> FALSE, lvWrites |-> FALSE, demux |-> {Zero4}, logged |-> FALSE,
     maxCycle |-> 0]

InitResolve == InitOf(EnvResolve)
NextResolve == Resolve
SpecResolve == InitResolve /\ [][NextResolve]_vars

InitPlan == InitOf(EnvPlan)
NextPlan == PlanLatency \/ PlanPhases
SpecPlan == InitPlan /\ [][NextPlan]_vars

-----------------------------------------------------------------------------
(* Reading the log.  Cycles are numbered from 1; cycle Len(log)+1 is the   *)
(* current one, whose registers are the state variables.                   *)

Cycles == 1..(Len(log) + 1)

\* rddata_valid of the phases in cycle c
ValidAt(c) == IF c = Len(log) + 1 THEN rddata_valid ELSE log[c].valid

\* some phase sees rddata_valid in cycle c
ValidIn(c) == \E p \in DfiPhases : ValidAt(c)[p]

\* leveling was enabled in some logged cycle
LevelingSeen == \E c \in 1..Len(log) : log[c].lv

\* the logged cycles with rddata_en on the read phase
ReadCycles == {c \in 1..Len(log) : log[c].rd}

\* exactly one read-enable was driven, in cycle T, and leveling stayed off
SingleRead(T) == ReadCycles = {T} /\ ~LevelingSeen /\ ~wlevel_en

-----------------------------------------------------------------------------
(* C1 *)

\* C1 as stated: after a single read-enable in cycle T, rddata_valid is
\* asserted in cycle T + read_latency - 1 and in no other cycle.
C1_ValidAtLatencyMinusOne ==
    phy = "ok" =>
        \A T \in 1..Len(log) : SingleRead(T) =>
            \A c \in Cycles : ValidIn(c) <=> (c = T + settings.read_latency - 1)

\* C1 amended: after a single read-enable on the read phase in cycle T with
\* leveling off, rddata_valid is asserted in cycle T + read_latency and in no
\* other cycle.
C1_ValidAtLatency ==
    phy = "ok" =>
        \A T \in 1..Len(log) : SingleRead(T) =>
            \A c \in Cycles : ValidIn(c) <=> (c = T + settings.read_latency)

\* a single read-enable whose valid pulse has been observed and has ended
C1_Witness ==
    /\ phy = "ok"
    /\ \E T \in 1..Len(log) :
        /\ SingleRead(T)
        /\ Len(log) = T + settings.read_latency
        /\ ValidIn(T + settings.read_latency)
        /\ ~ValidIn(T + settings.read_latency + 1)

-----------------------------------------------------------------------------
(* C2 *)

\* C2: outside leveling the read-valid path is a fixed delay line: in every
\* cycle c that does not follow a leveling cycle, every phase's rddata_valid
\* equals the read phase's rddata_en of cycle c - read_latency (and is low
\* in the first read_latency cycles after reset).
C2_ValidIsDelayedEnable ==
    phy = "ok" =>
        \A c \in Cycles : (c = 1 \/ ~log[c - 1].lv) =>
            \A p \in DfiPhases :
                ValidAt(c)[p] <=>
                    (c > settings.read_latency /\ log[c - settings.read_latency].rd)

\* two back-to-back read-enables have produced two back-to-back valids
C2_Witness ==
    /\ phy = "ok"
    /\ \E T \in 1..Len(log) :
        /\ ReadCycles = {T, T + 1}
        /\ Len(log) > T + settings.read_latency
        /\ ValidIn(T + settings.read_latency)
        /\ ValidIn(T + settings.read_latency + 1)
        /\ ~ValidIn(T + settings.read_latency - 1)

-----------------------------------------------------------------------------
(* C7 *)

\* C7: in every state all four DFI phases carry the same rddata_valid.
C7_AllPhasesSameValid ==
    \A p \in DfiPhases, q \in DfiPhases : rddata_valid[p] = rddata_valid[q]

\* a valid caused by a read-enable on a read phase other than 0, leveling
\* off, seen on the first and the last phase
C7_Witness ==
    /\ phy = "ok"
    /\ settings.rdphase # 0
    /\ nphases = 2
    /\ ~last.lv
    /\ rddata_valid[0]
    /\ rddata_valid[3]

-----------------------------------------------------------------------------
(* Reading the write side of the log. *)

\* the combinational oe and the registered pin enables in cycle c
OeAt(c) == IF c = Len(log) + 1 THEN oe ELSE log[c].oe
OeDqAt(c) == IF c = Len(log) + 1 THEN oe_dq ELSE log[c].oe_dq
OeDqsAt(c) == IF c = Len(log) + 1 THEN oe_dqs ELSE log[c].oe_dqs

\* wrdata_en of the write phase in cycle c (low before reset was released)
WrAt(c) == c >= 1 /\ c <= Len(log) /\ log[c].wr

\* the logged cycles with wrdata_en on the write phase
WriteCycles == {c \in 1..Len(log) : log[c].wr}

\* exactly one write-enable was driven, in cycle T, and leveling stayed off
SingleWrite(T) == WriteCycles = {T} /\ ~LevelingSeen /\ ~wlevel_en

\* one burst of k write-enables was driven, from cycle T on, leveling off
Burst(T, k) == WriteCycles = T..(T + k - 1) /\ ~LevelingSeen /\ ~wlevel_en

Min(S) == CHOOSE x \in S : \A y \in S : x <= y

-----------------------------------------------------------------------------
(* C3 *)

\* C3: the write-enable shift register has write_latency+2 bits, bit k holds
\* the write phase's wrdata_en of k+1 cycles ago, and in every cycle oe is
\* asserted iff one of bits write_latency-1, write_latency, write_latency+1
\* is set, that is iff wrdata_en was asserted write_latency, write_latency+1
\* or write_latency+2 cycles earlier.
C3_OeIsWindowOfShiftRegister ==
    phy = "ok" =>
        /\ Len(last_wrdata_en) = settings.write_latency + 2
        /\ \A k \in 0..(settings.write_latency + 1) :
              Bit(last_wrdata_en, k) <=> WrAt(Len(log) - k)
        /\ oe <=> \E k \in (settings.write_latency - 1)..(settings.write_latency + 1) :
                      Bit(last_wrdata_en, k)
        /\ \A c \in Cycles :
              OeAt(c) <=> \E d \in settings.write_latency..(settings.write_latency + 2) :
                              WrAt(c - d)

\* oe held up by the last bit of the shift register alone
C3_Witness ==
    /\ phy = "ok"
    /\ oe
    /\ Bit(last_wrdata_en, settings.write_latency + 1)
    /\ ~Bit(last_wrdata_en, settings.write_latency)
    /\ ~Bit(last_wrdata_en, settings.write_latency - 1)
    /\ Bit(last_wrdata_en, 0)

-----------------------------------------------------------------------------
(* C4 *)

\* C4 as stated: after a single write-enable in cycle T the output enable is
\* asserted exactly in cycles T+write_latency-1 .. T+write_latency+1, whether
\* it is read off the combinational oe or off the registered pin enables.
C4_WindowCentredOnLatency ==
    phy = "ok" =>
        \A T \in 1..Len(log) : SingleWrite(T) =>
            LET W == (T + settings.write_latency - 1)..(T + settings.write_latency + 1)
            IN  \/ \A c \in Cycles : OeAt(c) <=> c \in W
                \/ \A c \in Cycles : (OeDqAt(c) <=> c \in W) /\ (OeDqsAt(c) <=> c \in W)

\* C4 amended: after a single write-enable in cycle T (leveling off) the
\* combinational oe is asserted exactly in the 3 cycles T+write_latency ..
\* T+write_latency+2 and the pin enables oe_dq and oe_dqs exactly in the 3
\* cycles T+write_latency+1 .. T+write_latency+3.
C4_WindowAfterLatency ==
    phy = "ok" =>
        \A T \in 1..Len(log) : SingleWrite(T) =>
            LET W == (T + settings.write_latency)..(T + settings.write_latency + 2)
                P == (T + settings.write_latency + 1)..(T + settings.write_latency + 3)
            IN  \A c \in Cycles :
                    /\ OeAt(c) <=> c \in W
                    /\ OeDqAt(c) <=> c \in P
                    /\ OeDqsAt(c) <=> c \in P

\* a single write-enable whose whole pin window has been observed and closed
C4_Witness ==
    /\ phy = "ok"
    /\ \E T \in 1..Len(log) :
        /\ SingleWrite(T)
        /\ Len(log) = T + settings.write_latency + 3
        /\ \A c \in (T + settings.write_latency + 1)..(T + settings.write_latency + 3) :
              log[c].oe_dq /\ log[c].oe_dqs
        /\ ~oe_dq
        /\ ~oe_dqs

-----------------------------------------------------------------------------
(* C5 *)

\* the cycles of a flushed run with the preamble, and the first cycle of the
\* output-enable window as computed (oe) and as registered at the pins
PreCycles == {c \in 1..Len(log) : log[c].pre}
FirstOe == Min({c \in 1..Len(log) : log[c].oe})
FirstPinOe == Min({c \in 1..Len(log) : log[c].oe_dqs})

\* the write-enable of cycle T has left the shift register and the pin
\* registers
Flushed(T) == Len(log) >= T + settings.write_latency + 4

\* C5: in every configuration, after a single write-enable dqs_preamble is
\* asserted in exactly one cycle, the one immediately before the first cycle
\* of the 3-cycle output-enable window (of oe, or of the pin enables).
C5_PreambleBeforeWindow ==
    phy = "ok" =>
        \A T \in 1..Len(log) : (SingleWrite(T) /\ Flushed(T)) =>
            \/ PreCycles = {FirstOe - 1}
            \/ PreCycles = {FirstPinOe - 1}

-----------------------------------------------------------------------------
(* C6 *)

ZeroCycles == {c \in 1..Len(log) : log[c].pat = 0}

\* C6: in every configuration, outside leveling, a burst of k write-enables
\* makes the strobe pattern all-zero in exactly two cycles, a preamble cycle
\* and a later postamble cycle with exactly k toggling cycles between them,
\* and the pattern is 0b01010101 in every other cycle.
C6_PreamblePostambleBracketBurst ==
    phy = "ok" =>
        \A T \in 1..Len(log), k \in 1..Len(log) :
            (Burst(T, k) /\ Flushed(T + k - 1)) =>
                /\ Cardinality(ZeroCycles) = 2
                /\ \E a \in ZeroCycles, b \in ZeroCycles :
                      /\ log[a].pre
                      /\ log[b].post
                      /\ b = a + k + 1
                /\ \A c \in 1..Len(log) : c \notin ZeroCycles => log[c].pat = 85

-----------------------------------------------------------------------------
(* C8 *)

\* C8: for every data pin the bitslip rotation is always in 0..7 and equals,
\* modulo 8, the number of bitslip_inc pulses its lane received (without a
\* simultaneous reset) since the last bitslip_reset: each pulse takes v to
\* (v+1) mod 8 and 8 pulses return the rotation to where it was; for both
\* phase counts.
C8_RotationCyclicMod8 ==
    phy = "ok" =>
        \A i \in Pins :
            /\ dq_bitslip_value[i] \in 0..7
            /\ LaneOf(i) = LaneOf(0) => dq_bitslip_value[i] = slip_count
            /\ last.pulses = {"rdly_dq_bitslip"} =>
                  dq_bitslip_value[i] \in {last.bitslip[i], (last.bitslip[i] + 1) % 8}

\* with 2 phases: the eighth increment since the reset has just taken the
\* rotation from 7 back to 0
C8_Witness ==
    /\ phy = "ok"
    /\ nphases = 2
    /\ last.pulses = {"rdly_dq_bitslip"}
    /\ last.bitslip[0] = 7
    /\ dq_bitslip_value[0] = 0
    /\ slip_count = 0

-----------------------------------------------------------------------------
(* C9 *)

\* the step changes pin i's rotation and input delay tap as the pulses P of
\* the cycle ask of a selected lane
Applied(i, P) ==
    /\ dq_bitslip_value'[i] =
          IF "rdly_dq_bitslip_rst" \in P THEN 0
          ELSE IF "rdly_dq_bitslip" \in P THEN (dq_bitslip_value[i] + 1) % 8
          ELSE dq_bitslip_value[i]
    /\ idelay_tap'[i] =
          IF "rdly_dq_rst" \in P THEN 0
          ELSE IF "rdly_dq_inc" \in P THEN idelay_tap[i] + 1
          ELSE idelay_tap[i]

Kept(i) ==
    /\ dq_bitslip_value'[i] = dq_bitslip_value[i]
    /\ idelay_tap'[i] = idelay_tap[i]

\* C9: in every cycle, for any lane select mask, the pins of the lanes whose
\* mask bit is set have their rotation (input delay tap) advanced by one or
\* reset as the cycle's pulses say, the pins of every other lane keep both,
\* and a cycle without a pulse changes nothing whatever the mask becomes.
C9_LaneIsolation ==
    [][phy = "ok" =>
        \A i \in Pins :
            /\ dly_sel[LaneOf(i)] => Applied(i, last'.pulses)
            /\ ~dly_sel[LaneOf(i)] => Kept(i)
            /\ last'.pulses = {} => Kept(i)]_vars

\* an increment has just advanced lane 0 alone, lane 1 keeps another rotation
\* and its tap
C9_Witness ==
    /\ phy = "ok"
    /\ databits = 16
    /\ last.pulses = {"rdly_dq_bitslip"}
    /\ last.bitslip[0] = 2
    /\ dq_bitslip_value[0] = 3
    /\ last.bitslip[8] = 1
    /\ dq_bitslip_value[8] = 1
    /\ idelay_tap[0] = 0
    /\ idelay_tap[8] = 1

-----------------------------------------------------------------------------
(* C10 *)

\* the 16 bits of the four groups the two windows sampled before the last
\* edge were made of, oldest first
SampledSpan == demux_hist[7] \o demux_hist[6] \o demux_hist[5] \o demux_hist[4]

\* w rotated by R
Rotated(w, R) == [k \in 1..8 |-> w[((R + k - 1) % 8) + 1]]

\* C10 as stated: the aligner output is a cyclic rotation by R of an 8-bit
\* window of two consecutively deserialised groups (whichever recent pair of
\* groups is taken as the window and whether R is the rotation before or
\* after the last edge).
C10_OutputIsRotationOfWindow ==
    phy = "ok" =>
        \A i \in Pins :
            \E j \in 1..(DemuxDepth - 1), R \in {dq_bitslip_value[i], last.bitslip[i]} :
                dq_bitslip_o[i] = Rotated(demux_hist[j + 1] \o demux_hist[j], R)

\* C10 amended: the aligner output is a sliding window: output[k] is bit
\* R + k of the 16 bits formed by two consecutive 8-bit windows the aligner
\* sampled (older first), R being the rotation in effect when the output
\* was registered.
C10_OutputIsSlidingWindow ==
    phy = "ok" =>
        \A i \in Pins, k \in 0..7 :
            Bit(dq_bitslip_o[i], k) = Bit(SampledSpan, last.bitslip[i] + k)

\* a rotated output that straddles two different windows
C10_Witness ==
    /\ phy = "ok"
    /\ last.bitslip[0] = 3
    /\ demux_hist[7] \o demux_hist[6] # demux_hist[5] \o demux_hist[4]
    /\ dq_bitslip_o[0] # Rotated(demux_hist[7] \o demux_hist[6], 3)
    /\ dq_bitslip_o[0] # Rotated(demux_hist[5] \o demux_hist[4], 3)

-----------------------------------------------------------------------------
(* Reading a call of get_cl_cw.                                             *)

\* the speed bins of the two families as the specification lists them:
\* <<minimum frequency in MT/s, cl, cwl>>
Bins(mt) ==
    IF mt = "DDR2"
    THEN {<<400, 3, 2>>, <<533, 4, 3>>, <<677, 5, 4>>, <<800, 6, 5>>, <<1066, 7, 5>>}
    ELSE {<<800, 6, 5>>, <<1066, 7, 6>>, <<1333, 10, 7>>, <<1600, 11, 8>>}

\* clock_period >= 2/f for the period num/den microseconds and f in MHz
Meets(tck, f) == 2 * tck[2] <= tck[1] * f

\* the bins of family mt the period tck satisfies
Qualifying(mt, tck) == {b \in Bins(mt) : Meets(tck, b[1])}

\* period a is shorter than period b
Shorter(a, b) == a[1] * b[2] < b[1] * a[2]

Resolved == call.fn = "get_cl_cw"
Known == call.memtype \in {"DDR2", "DDR3"}

-----------------------------------------------------------------------------
(* C11 *)

\* C11: for a family in {DDR2, DDR3}, a call of get_cl_cw that returns a pair
\* returns the (cl, cwl) of a bin of that family which the period satisfies
\* (tck >= 2/f), and no bin of lower frequency satisfies it; DDR3 at the
\* period of phase count 4 and a 100 MHz system clock yields (6, 5).
C11_FirstQualifyingBin ==
    /\ (Resolved /\ Known /\ ~call.raised) =>
          \E b \in Qualifying(call.memtype, call.tck) :
              /\ call.result = <<b[2], b[3]>>
              /\ \A c \in Qualifying(call.memtype, call.tck) : c[1] >= b[1]
    /\ (Resolved /\ call.memtype = "DDR3" /\ call.tck = <<2, 800>>) =>
          ~call.raised /\ call.result = <<6, 5>>

\* DDR3 was resolved at the period of 800 MT/s, which every DDR3 bin satisfies
C11_Witness ==
    /\ Resolved /\ call.memtype = "DDR3" /\ call.tck = Tck(4, 100)
    /\ ~call.raised /\ call.result = <<6, 5>>
    /\ Cardinality(Qualifying("DDR3", call.tck)) = 4

-----------------------------------------------------------------------------
(* C12 *)

\* the call was a re-run for the same family, and both calls returned a pair
Rerun ==
    /\ Resolved /\ Known /\ ~call.raised
    /\ call.before.fn = "get_cl_cw" /\ ~call.before.raised

\* C12: when get_cl_cw accepted two periods for the same family, the bin
\* returned for the shorter period has cl and cwl at least those of the bin
\* returned for the longer one.
C12_Monotone ==
    Rerun =>
        /\ Shorter(call.tck, call.before.tck) =>
              /\ call.result[1] >= call.before.result[1]
              /\ call.result[2] >= call.before.result[2]
        /\ Shorter(call.before.tck, call.tck) =>
              /\ call.before.result[1] >= call.result[1]
              /\ call.before.result[2] >= call.result[2]

\* a re-run with a shorter period moved to a bin with a larger cl, and one
\* kept cwl while cl grew (DDR2 800 -> 1066)
C12_Witness ==
    /\ Rerun /\ call.memtype = "DDR2"
    /\ Shorter(call.tck, call.before.tck)
    /\ call.before.result = <<6, 5>> /\ call.result = <<7, 5>>

-----------------------------------------------------------------------------
(* C13 *)

\* the bin of lowest frequency of family mt
SlowestBin(mt) == CHOOSE b \in Bins(mt) : \A c \in Bins(mt) : c[1] >= b[1]

\* C13: get_cl_cw raises exactly when the family is not DDR2 or DDR3 or no
\* bin of the family satisfies the period; otherwise it returns a pair, and a
\* period longer than the slowest bin's resolves to the slowest bin.
C13_FailsExactlyWhenNoBin ==
    Resolved =>
        /\ call.raised <=> (~Known \/ Qualifying(call.memtype, call.tck) = {})
        /\ call.raised => call.result = ValueError
        /\ ~call.raised => call.result \in {<<b[2], b[3]>> : b \in Bins(call.memtype)}
        /\ (Known /\ Shorter(<<2, SlowestBin(call.memtype)[1]>>, call.tck)) =>
              /\ ~call.raised
              /\ call.result = <<SlowestBin(call.memtype)[2], SlowestBin(call.memtype)[3]>>

\* a period longer than the slowest DDR2 bin's resolved to that bin, and then
\* a period shorter than the fastest DDR2 bin's was refused
C13_Witness ==
    /\ Resolved /\ call.memtype = "DDR2" /\ call.tck = <<2, 1700>>
    /\ call.raised /\ call.result = ValueError
    /\ call.before.fn = "get_cl_cw" /\ call.before.tck = <<2, 350>>
    /\ ~call.before.raised /\ call.before.result = <<3, 2>>

-----------------------------------------------------------------------------
(* Reading a call of the latency planner.                                   *)

\* ceil(latency / n): the least integer s with s*n >= latency
Ceil(latency, n) == CHOOSE s \in 0..latency : s * n >= latency /\ (s - 1) * n < latency

\* the cl and cwl values of the two families' bins
TableLatencies == {b[2] : b \in Bins("DDR2") \cup Bins("DDR3")}
                  \cup {b[3] : b \in Bins("DDR2") \cup Bins("DDR3")}

Planned == call.fn = "get_sys_phases"
CmdPhase == call.result[1]
DatPhase == call.result[2]

-----------------------------------------------------------------------------
(* C14 *)

\* C14: get_sys_latency(N, latency) is the least integer s with
\* s*N >= latency, for N in {2, 4} and every latency it is called with.
C14_SysLatencyIsCeil ==
    call.fn = "get_sys_latency" =>
        /\ call.result * call.nphases >= call.cas_latency
        /\ (call.result - 1) * call.nphases < call.cas_latency

\* a latency that is no multiple of N was rounded up: ceil(5/4) = 2
C14_Witness ==
    /\ call.fn = "get_sys_latency" /\ call.nphases = 4 /\ call.cas_latency = 5
    /\ call.result = 2

-----------------------------------------------------------------------------
(* C15 *)

\* C15: called with sys_latency = ceil(latency/N), get_sys_phases returns
\* dat_phase = sys_latency*N - latency and cmd_phase = (dat_phase - 1) mod N,
\* both in 0..N-1; and rdphase, wrphase, rdcmdphase and wrcmdphase of every
\* constructed PhySettings are in 0..N-1.
C15_PhasesInRange ==
    /\ (Planned /\ call.sys_latency = Ceil(call.cas_latency, call.nphases)) =>
          /\ DatPhase = call.sys_latency * call.nphases - call.cas_latency
          /\ CmdPhase = (IF DatPhase = 0 THEN call.nphases - 1 ELSE DatPhase - 1)
          /\ DatPhase \in 0..(call.nphases - 1)
          /\ CmdPhase \in 0..(call.nphases - 1)
    /\ phy = "ok" =>
          {settings.rdphase, settings.wrphase,
           settings.rdcmdphase, settings.wrcmdphase} \subseteq 0..(nphases - 1)

\* a call with a latency that is a multiple of N gave data phase 0 and command
\* phase N-1, next to a constructed PHY (DDR2, 2 phases, cl = 4) whose read
\* data phase is 0 and whose read command phase wraps to 1
C15_Witness ==
    /\ Planned /\ call.nphases = 4 /\ call.cas_latency = 8
    /\ DatPhase = 0 /\ CmdPhase = 3
    /\ phy = "ok" /\ nphases = 2 /\ settings.cl = 4
    /\ settings.rdphase = 0 /\ settings.rdcmdphase = 1

-----------------------------------------------------------------------------
(* C16 *)

\* C16 as stated: for every table latency the data phase is `latency` slots
\* after the command phase, (cmd_phase + latency) mod N = dat_phase.
C16_DataLatencySlotsAfterCommand ==
    (Planned /\ call.cas_latency \in TableLatencies) =>
        (CmdPhase + call.cas_latency) % call.nphases = DatPhase

\* C16 amended: for every table latency the command phase is the phase just
\* before the data phase, (cmd_phase + 1) mod N = dat_phase, and `latency`
\* slots after the data phase is phase 0, (dat_phase + latency) mod N = 0; so
\* (cmd_phase + latency) mod N = N - 1.
C16_CommandJustBeforeData ==
    (Planned /\ call.cas_latency \in TableLatencies) =>
        /\ (CmdPhase + 1) % call.nphases = DatPhase
        /\ (DatPhase + call.cas_latency) % call.nphases = 0
        /\ (CmdPhase + call.cas_latency) % call.nphases = call.nphases - 1

\* cl = 6 at 4 phases: command on phase 1, data on phase 2, and phase
\* (1 + 6) mod 4 = 3 is not the data phase
C16_Witness ==
    /\ Planned /\ call.nphases = 4 /\ call.cas_latency = 6
    /\ CmdPhase = 1 /\ DatPhase = 2

-----------------------------------------------------------------------------
(* C17 *)

\* C17: in every configuration the constructor accepts,
\* read_latency = 2 + ceil(cl/N) + 2 + 3 - 1 > 1 and
\* write_latency = ceil(cwl/N) with write_latency + 2 > 0, and the read-enable
\* and write-enable shift registers have the positive lengths read_latency - 1
\* and write_latency + 2.
C17_LatenciesValid ==
    phy = "ok" =>
        /\ settings.read_latency = 2 + Ceil(settings.cl, nphases) + 2 + 3 - 1
        /\ settings.write_latency = Ceil(settings.cwl, nphases)
        /\ settings.read_latency > 1
        /\ settings.write_latency + 2 > 0
        /\ Len(rddata_en_pipe) = settings.read_latency - 1
        /\ Len(last_wrdata_en) = settings.write_latency + 2
        /\ Len(rddata_en_pipe) > 0
        /\ Len(last_wrdata_en) > 0

\* the accepted configuration with the smallest latencies: DDR2 400 at 4
\* phases (cl, cwl = 3, 2)
C17_Witness ==
    /\ phy = "ok" /\ memtype = "DDR2" /\ nphases = 4 /\ sys_clk_freq = 50
    /\ settings.read_latency = 7 /\ settings.write_latency = 1
    /\ Len(rddata_en_pipe) = 6 /\ Len(last_wrdata_en) = 3

-----------------------------------------------------------------------------
(* C18 *)

\* the logged cycles in which _wlevel_en.storage was set
LevelCycles == {c \in 1..Len(log) : log[c].lv}

\* C18: with output delay lines, whenever write leveling is enabled in cycle
\* t, rddata_valid of every phase is asserted in cycle t+1 whatever the
\* read-enables were; without output delay lines leveling is never enabled and
\* rddata_valid of a cycle is the read phase's rddata_en of read_latency
\* cycles earlier.
C18_LevelingForcesValid ==
    phy = "ok" =>
        /\ with_odelay =>
              \A c \in LevelCycles : \A p \in DfiPhases : ValidAt(c + 1)[p]
        /\ ~with_odelay =>
              /\ ~wlevel_en /\ LevelCycles = {}
              /\ \A c \in Cycles : \A p \in DfiPhases :
                    ValidAt(c)[p] <=>
                        (c > settings.read_latency /\ log[c - settings.read_latency].rd)

\* leveling was enabled in a run without any read-enable, and the cycle after
\* it saw rddata_valid on every phase, which the cycle after a cycle without
\* leveling did not
C18_Witness ==
    /\ with_odelay /\ ReadCycles = {}
    /\ \E c \in LevelCycles : \A p \in DfiPhases : ValidAt(c + 1)[p]
    /\ \E c \in (1..Len(log)) \ LevelCycles : \A p \in DfiPhases : ~ValidAt(c + 1)[p]

-----------------------------------------------------------------------------
(* C19 *)

\* C19: in a cycle with write leveling enabled the strobe pattern is
\* 0b00000001 if _wlevel_strobe is pulsed in that cycle and 0b00000000 if not,
\* whatever the preamble and postamble conditions are; 0b01010101 is never
\* emitted while leveling.
C19_LevelingStrobePattern ==
    last.lv =>
        /\ last.pat = (IF "wlevel_strobe" \in last.pulses THEN 1 ELSE 0)
        /\ last.pat # 85

\* a strobe pulse while leveling, in a cycle in which the write-enable history
\* raised the postamble condition: the pattern was 0b00000001
C19_Witness ==
    /\ last.lv /\ "wlevel_strobe" \in last.pulses
    /\ last.post /\ last.pat = 1

-----------------------------------------------------------------------------
(* C20 *)

\* C20: if write leveling is enabled in cycle t, then in cycle t+1 oe_dq is
\* low and oe_dqs is high whatever the write-enable shift register holds;
\* otherwise oe_dq and oe_dqs of cycle t+1 both equal oe of cycle t.
C20_LevelingKeepsDataPinsOff ==
    /\ last.lv => (~oe_dq /\ oe_dqs)
    /\ ~last.lv => (oe_dq = last.oe /\ oe_dqs = last.oe)

\* leveling was enabled in a cycle in which a write held oe high: the data
\* pins are not driven in the next cycle, the strobe pins are
C20_Witness ==
    /\ last.lv /\ last.oe
    /\ ~oe_dq /\ oe_dqs

-----------------------------------------------------------------------------
(* C21 *)

\* C21: construction with memtype DDR3 and nphases = 2 fails on the phase
\* count assertion, with no settings computed and no PHY instance, at every
\* clock frequency and with or without output delay lines; DDR3 with 4 phases
\* and DDR2 with 2 or 4 phases never fail on that assertion.
C21_UnsupportedPhaseCount ==
    /\ (memtype = "DDR3" /\ nphases = 2) =>
          /\ phy = AssertionError
          /\ settings = [memtype |-> memtype]
          /\ rddata_en_pipe = <<>> /\ last_wrdata_en = <<>>
    /\ ~(memtype = "DDR3" /\ nphases = 2) => phy # AssertionError

\* DDR3 with two phases at 200 MHz, a data rate DDR3-800 would accept, with
\* output delay lines: construction failed on the assertion
C21_Witness ==
    /\ memtype = "DDR3" /\ nphases = 2 /\ sys_clk_freq = 200 /\ with_odelay
    /\ get_cl_cw(memtype, Tck(nphases, sys_clk_freq)) # ValueError
    /\ phy = AssertionError

-----------------------------------------------------------------------------
(* C30 *)

\* system clock frequencies (MHz, truncated) giving the data rates the module
\* header lists for a family, by phase count
SupportedClks(mt, n) ==
    IF mt = "DDR2" THEN (IF n = 2 THEN {100, 133, 166, 200, 266}
                         ELSE {50, 66, 83, 100, 133})
    ELSE (IF n = 4 THEN {100, 133, 166, 200} ELSE {})

\* C30: for every supported data rate and every I/O delay reference clock,
\* half_sys8x_taps lies in 0..15 and the 4-bit register holds it untruncated.
C30_TapBaseFitsRegister ==
    (phy = "ok" /\ sys_clk_freq \in SupportedClks(memtype, nphases)) =>
        /\ half_sys8x_taps(nphases, sys_clk_freq, iodelay_clk_freq) \in 0..15
        /\ half_sys8x_taps_storage =
              half_sys8x_taps(nphases, sys_clk_freq, iodelay_clk_freq)

-----------------------------------------------------------------------------
(* C23 *)

\* pins of lane l
PinsOf(l) == {i \in Pins : LaneOf(i) = l}

\* the tap base the strobe delay is built with
TapBase == half_sys8x_taps(nphases, sys_clk_freq, iodelay_clk_freq)

\* C23 as stated: within every lane the data, mask and strobe output taps are
\* equal in every reachable state (and zero after a write-delay reset).
C23_LaneTapsEqual ==
    \A l \in DOMAIN odelay_dqs :
        /\ odelay_dm[l] = odelay_dqs[l]
        /\ \A i \in PinsOf(l) : odelay_dq[i] = odelay_dm[l]

\* C23 (amended): with lane l selected, a wdly_dq reset pulse sets the taps of
\* the lane's data pins and mask pin to zero, else a wdly_dq increment pulse
\* advances them by one, and they are equal in every reachable state; the
\* strobe tap is loaded with half_sys8x_taps by a wdly_dqs reset pulse, else
\* advanced by one by a wdly_dqs increment pulse, and moved by nothing else.
C23_DataAndMaskTapsTogether ==
    \A l \in DOMAIN odelay_dqs :
        /\ \A i \in PinsOf(l) : odelay_dq[i] = odelay_dm[l]
        /\ odelay_dm[l] =
              IF last.sel[l] /\ "wdly_dq_rst" \in last.pulses THEN 0
              ELSE IF last.sel[l] /\ "wdly_dq_inc" \in last.pulses
                   THEN last.taps.dm[l] + 1
              ELSE last.taps.dm[l]
        /\ odelay_dqs[l] =
              IF last.sel[l] /\ "wdly_dqs_rst" \in last.pulses THEN TapBase
              ELSE IF last.sel[l] /\ "wdly_dqs_inc" \in last.pulses
                   THEN last.taps.dqs[l] + 1
              ELSE last.taps.dqs[l]

\* a wdly_dq increment pulse reached lane 0 alone: its data and mask taps
\* went from 0 to 1, its strobe tap stayed at the tap base, lane 1 stayed
C23_Witness ==
    /\ last.pulses = {"wdly_dq_inc"} /\ last.sel[0] /\ ~last.sel[1]
    /\ last.taps.dm[0] = 0 /\ odelay_dm[0] = 1 /\ odelay_dq[0] = 1 /\ odelay_dq[7] = 1
    /\ odelay_dqs[0] = TapBase /\ TapBase > 1
    /\ odelay_dq[8] = last.taps.dq[8]

-----------------------------------------------------------------------------
(* C28 *)

\* C28: when a bitslip reset pulse and a bitslip increment pulse reach a
\* selected lane in the same cycle, every pin of the lane has rotation 0 in
\* the next cycle, whatever its rotation was.
C28_ResetWinsOverIncrement ==
    [][(phy = "ok" /\ {"rdly_dq_bitslip_rst", "rdly_dq_bitslip"} \subseteq last'.pulses) =>
          \A i \in Pins : dly_sel[LaneOf(i)] => dq_bitslip_value'[i] = 0]_vars

\* both pulses came in one cycle while the rotation was 5: it is 0 now, which
\* only a pulse reaching the selected lane does
C28_Witness ==
    /\ phy = "ok"
    /\ last.pulses = {"rdly_dq_bitslip_rst", "rdly_dq_bitslip"}
    /\ last.bitslip[0] = 5
    /\ dq_bitslip_value[0] = 0

-----------------------------------------------------------------------------
(* C29 *)

\* C29: in every reachable state the data pins of one byte lane hold the same
\* bitslip rotation.
C29_LaneRotationShared ==
    phy = "ok" =>
        \A i \in Pins, j \in Pins :
            LaneOf(i) = LaneOf(j) => dq_bitslip_value[i] = dq_bitslip_value[j]

\* the 8 pins of lane 0 at rotation 3 and the 8 pins of lane 1 at rotation 6
C29_Witness ==
    /\ phy = "ok"
    /\ databits = 16
    /\ \A i \in 0..7 : dq_bitslip_value[i] = 3
    /\ \A i \in 8..15 : dq_bitslip_value[i] = 6

-----------------------------------------------------------------------------
(* C24 *)

\* the reset and increment pulses of the calibration state
CalPulseNames ==
    BitslipPulseNames \cup DelayPulseNames \cup
    {"wdly_dq_rst", "wdly_dq_inc", "wdly_dqs_rst", "wdly_dqs_inc"}

\* a reset or increment pulse reached lane l in the last cycle
Reached(l) == last.sel[l] /\ last.pulses \cap CalPulseNames # {}

\* C24: after a cycle in which no reset or increment pulse reached a lane (no
\* pulse, or the lane not selected), the lane's rotation, input delay taps and
\* output delay taps are what they were, whatever the enables, the lane
\* selection write and the leveling enable of that cycle were.
C24_CalibrationPersists ==
    \A l \in Lanes :
        ~Reached(l) =>
            /\ \A i \in PinsOf(l) :
                  /\ dq_bitslip_value[i] = last.bitslip[i]
                  /\ idelay_tap[i] = last.taps.idelay[i]
                  /\ odelay_dq[i] = last.taps.dq[i]
            /\ odelay_dm[l] = last.taps.dm[l]
            /\ odelay_dqs[l] = last.taps.dqs[l]

\* a cycle without pulse, with reads and writes on every phase, leveling
\* enabled and the lane selection rewritten: rotation 1 and the advanced taps
\* of lane 0 are kept
C24_Witness ==
    /\ last.pulses = {} /\ last.lv /\ last.sel[0] /\ ~dly_sel[0]
    /\ \A p \in DfiPhases : last.rd[p] /\ last.wr[p]
    /\ dq_bitslip_value[0] = 1 /\ last.bitslip[0] = 1
    /\ idelay_tap[0] = 1 /\ odelay_dq[0] = 1 /\ odelay_dm[0] = 1
    /\ odelay_dqs[0] = TapBase + 1

-----------------------------------------------------------------------------
(* C27 *)

\* no enable is in flight in a shift register
Quiet(reg) == \A k \in 1..Len(reg) : ~reg[k]

\* C27: the bit entering the read-enable delay line is the rddata_en of
\* settings.rdphase and the bit entering last_wrdata_en is the wrdata_en of
\* settings.wrphase, whatever the other phases carry; so with nothing in
\* flight a cycle whose enables are all on other phases leaves the registers
\* empty, rddata_valid low and oe, preamble and postamble low.
C27_OnlyDesignatedPhases ==
    [][phy = "ok" =>
        /\ rddata_en_pipe'[1] = last'.rd[settings.rdphase]
        /\ last_wrdata_en'[1] = last'.wr[settings.wrphase]
        /\ (Quiet(rddata_en_pipe) /\ ~last'.rd[settings.rdphase]) =>
              /\ Quiet(rddata_en_pipe')
              /\ \A p \in DfiPhases : ~rddata_valid'[p]
        /\ (Quiet(last_wrdata_en) /\ ~last'.wr[settings.wrphase]) =>
              /\ Quiet(last_wrdata_en')
              /\ ~oe' /\ ~dqs_preamble' /\ ~dqs_postamble']_vars

\* read and write enables on every phase but the designated ones, in a cycle
\* with nothing in flight: nothing entered the registers, nothing is asserted
C27_Witness ==
    /\ settings.rdphase = 2 /\ settings.wrphase = 3
    /\ last.rd = AllBut(2) /\ last.wr = AllBut(3)
    /\ Quiet(rddata_en_pipe) /\ Quiet(last_wrdata_en)
    /\ \A p \in DfiPhases : ~rddata_valid[p]
    /\ ~oe /\ ~dqs_preamble /\ ~dqs_postamble /\ ~oe_dq /\ ~oe_dqs

-----------------------------------------------------------------------------
(* C22 *)

\* the frame the serialisers loaded on the last edge
Loaded == Frame(frame_hist[1])

\* C22: every data pin i emits 2N bits per system cycle, phase p on
\* transitions 2p and 2p+1 with wrdata[i] first and wrdata[databits+i]
\* second; every mask pin likewise with wrdata_mask; an address/bank/control
\* pin emits phase p's bit on both transitions 2p and 2p+1.
C22_SerializationOrder ==
    phy = "ok" =>
        /\ \A i \in Pins :
              /\ Len(dq_o_nodelay[i]) = 2 * nphases
              /\ \A p \in 0..(nphases - 1) :
                    /\ Bit(dq_o_nodelay[i], 2 * p) = Loaded.wrdata[p][i]
                    /\ Bit(dq_o_nodelay[i], 2 * p + 1) = Loaded.wrdata[p][databits + i]
        /\ \A l \in Lanes :
              /\ Len(dm_o_nodelay[l]) = 2 * nphases
              /\ \A p \in 0..(nphases - 1) :
                    /\ Bit(dm_o_nodelay[l], 2 * p) = Loaded.wrdata_mask[p][l]
                    /\ Bit(dm_o_nodelay[l], 2 * p + 1) =
                          Loaded.wrdata_mask[p][(databits \div 8) + l]
        /\ Len(pads_a) = 2 * nphases
        /\ \A p \in 0..(nphases - 1) :
              /\ Bit(pads_a, 2 * p) = Loaded.address[p]
              /\ Bit(pads_a, 2 * p + 1) = Loaded.address[p]

\* with 2 phases and 8 data pins, frame 2 was loaded: pin 3 emits
\* wrdata[3], wrdata[11] of phase 0, then of phase 1, and the address pin
\* emits each phase's bit twice
C22_Witness ==
    /\ phy = "ok" /\ nphases = 2 /\ databits = 8
    /\ frame_hist[1] = 2
    /\ Loaded.wrdata[0][3] = 0 /\ Loaded.wrdata[0][11] = 1
    /\ Loaded.wrdata[1][3] = 1 /\ Loaded.wrdata[1][11] = 0
    /\ dq_o_nodelay[3] = <<0, 1, 1, 0>>
    /\ pads_a = <<0, 0, 1, 1>>

-----------------------------------------------------------------------------
(* C25 *)

\* the aligner output bits the read words of one pin are taken from
RdSources == {RdSource(p, h) : p \in 0..(nphases - 1), h \in 0..1}

\* C25: for both phase counts the 2N read-data bits of a pin come from 2N
\* pairwise distinct bits of the aligner output.
C25_ReadMappingOneToOne ==
    phy = "ok" => Cardinality(RdSources) = 2 * nphases

-----------------------------------------------------------------------------
(* C26 *)

\* the rotation that lines the read words up for a displacement of s bits,
\* and how many cycles back the write words they equal were presented
AlignRotation(s) == (s + 4) % 8
AlignDelay(s) == IF s < 4 THEN 4 ELSE 5

\* C26: with 4 phases and every pin's serialised stream returning to its
\* aligner displaced by skew bits, whenever the rotation in effect is
\* AlignRotation(skew) the read words of all phases equal, both halves, the
\* write words presented AlignDelay(skew) cycles earlier; the rotation always
\* equals the number of increment pulses since reset, modulo 8.
C26_AlignmentRoundTrip ==
    phy = "ok" =>
        /\ \A i \in Pins : dq_bitslip_value[i] = slip_count
        /\ (\A i \in Pins : last.bitslip[i] = AlignRotation(skew)) =>
              \A i \in Pins, p \in 0..(nphases - 1), h \in 0..1 :
                  rddata(p, i, h) =
                      FrameBit(frame_hist[AlignDelay(skew)], p, h * databits + i)

\* displaced by 6 bits and rotated by 2 with two increments: the read words
\* are frame 1, presented 5 cycles ago, between cycles presenting frame 2
C26_Witness ==
    /\ phy = "ok" /\ nphases = 4
    /\ skew = 6 /\ slip_count = 2 /\ last.bitslip[0] = 2 /\ dq_bitslip_value[0] = 2
    /\ frame_hist = <<1, 2, 1, 2, 1>>
    /\ \A i \in Pins, p \in 0..3, h \in 0..1 :
          rddata(p, i, h) = FrameBit(1, p, h * databits + i)
    /\ \E i \in Pins, p \in 0..3, h \in 0..1 :
          rddata(p, i, h) # FrameBit(2, p, h * databits + i)

=============================================================================
